---- MODULE Spec2Model ----
(***************************************************************************)
(* GLnexus RocksKeyValue (src/src/RocksKeyValue.cc): the KeyValue layer    *)
(* over a RocksDB database.  The wrapper's classes (DB, WriteBatch,        *)
(* Reader, Iterator) are modelled from their code; the RocksDB engine they *)
(* call is modelled at each call site by its documented behaviour.         *)
(***************************************************************************)
EXTENDS Integers, Sequences, FiniteSets, TLC

\* ------------------------------------------------------------------ bounds
\* A WriteBatch stages at most MaxStaged puts.
MaxStaged == 2
\* convertStatus is given the status codes 0..MaxCode.
MaxCode == 127

\* Collection (column family) names.  "default" is the engine's built-in one.
Names == {"default", "a"}
\* std::map<const std::string, ...> iterates its keys in lexicographic order.
NameOrder == <<"a", "default">>
\* Keys are strings, modelled as sequences of characters 1 < 2; <<>> is "".
PutKeys == {<<1>>, <<2>>}
\* The keys written while the database is created, closed and reopened.
LifeKeys == {<<1>>}
\* The keys stored and sought while a collection is iterated.
IterKeys == {<<1>>, <<1, 1>>, <<1, 2>>, <<2>>}
\* Values are strings, modelled as numbers; 0 is the empty string.  A put
\* writes any of Vals, a WriteBatch stages BatchVals.
Vals == {1, 2}
BatchVals == {2}

OpenModes == {"NORMAL", "BULK_LOAD", "READ_ONLY"}

VARIABLES
    \* the on-disk database at dbPath
    dbExists,        \* a database exists at the path
    cfList,          \* its column families, in manifest order
    sst,             \* cf -> table flushed to disk (key -> value)
    wal,             \* cf -> writes held by the write-ahead log
    \* the engine handle (rocksdb::DB*)
    eng,             \* "closed", "rw" (DB::Open) or "ro" (OpenForReadOnly)
    mem,             \* cf -> memtable of the open engine
    hAcq,            \* column family handles acquired and not yet deleted
    \* the KeyValue::DB object held by the caller's unique_ptr
    db,              \* "none" or "live"
    mode_,
    coll2handle_,    \* name -> handle; a handle is the column family it refers to
    write_options_,
    batch_write_options_,
    \* the caller's WriteBatch
    wb,              \* "none" or "open"
    staged,          \* wb_: the staged puts, in order
    \* the Reader-created Iterator
    it,              \* "none" or "open"
    itKeys,          \* the cursor's snapshot, as its ascending key sequence
    itVals,          \* key -> value of the snapshot
    itPos,           \* cursor position: 1..Len(itKeys), or Len(itKeys)+1 when not Valid()
    itStatus,        \* the cursor's status() code
    key_,
    value_,
    \* what the last call returned, and what it did
    ret,             \* [op, status]
    dtorLog,         \* the last ~DB: its object's mode and mapping, its engine calls
    \* history (not program state)
    doubleFree,      \* a handle or the engine was deleted twice
    usedReleased,    \* a call went through an engine handle already deleted
    roSnapshot,      \* <<the stored contents when the READ_ONLY database was opened>>
    closedView,      \* <<the contents when a NORMAL database was destroyed, and
                     \* whether it had dropped staged puts>>, kept until the
                     \* database opened next is first used
    wbDone,          \* how many of the staged puts a successful commit has applied
    droppedStaged,   \* this database's batch was destroyed holding puts that no
                     \* commit had applied
    written,         \* <<collection, key>> -> the value found when the database
                     \* was opened, or last written since by a put or a commit
                     \* that returned OK
    itStart,         \* the startKey the iterator was created with
    visited,         \* the keys key() has shown to the loop
                     \* for (; it->valid(); it->next()), in order
    itEnded,         \* how that loop ended: "no" (valid() has been true so
                     \* far), "end" (valid() was false with the cursor's
                     \* status ok) or "error" (with a status not ok)
    \* the static helpers
    statusCode,      \* s.code() of the rocksdb::Status given to convertStatus
    physPages,       \* what sysconf(_SC_PHYS_PAGES) returns on this machine
    pageSize,        \* what sysconf(_SC_PAGESIZE) returns on this machine
    memoized,        \* totalRAM's static size_t
    \* threads that each hold a WriteBatch of their own
    threads          \* thread -> [wb_, pc, todo, status]

vars == <<dbExists, cfList, sst, wal, eng, mem, hAcq, db, mode_, coll2handle_,
          write_options_, batch_write_options_, wb, staged,
          it, itKeys, itVals, itPos, itStatus, key_, value_,
          ret, dtorLog, doubleFree, usedReleased, roSnapshot, closedView, wbDone,
          droppedStaged, written, itStart, visited, itEnded,
          statusCode, physPages, pageSize, memoized, threads>>

diskVars == <<dbExists, cfList, sst, wal>>
engVars == <<eng, mem, hAcq>>
dbVars == <<db, mode_, coll2handle_, write_options_, batch_write_options_>>
wbVars == <<wb, staged, wbDone>>
itVars == <<it, itKeys, itVals, itPos, itStatus, key_, value_, itStart, visited,
            itEnded>>
staticVars == <<statusCode, physPages, pageSize, memoized>>
histVars == <<doubleFree, usedReleased, roSnapshot, closedView, droppedStaged>>

\* ----------------------------------------------------------------- helpers
Range(s) == {s[i] : i \in 1..Len(s)}

EmptyTable == [k \in {} |-> 0]

\* Table b laid over table a: b's entries win.
Overlay(a, b) ==
    [k \in (DOMAIN a) \cup (DOMAIN b) |-> IF k \in DOMAIN b THEN b[k] ELSE a[k]]

TablePut(t, k, v) == [x \in (DOMAIN t) \cup {k} |-> IF x = k THEN v ELSE t[x]]

NoTables == [c \in {} |-> EmptyTable]

NoThreads == [t \in {} |-> <<>>]

NoDtor == [mode |-> "", colls |-> NoTables, calls |-> <<>>]

\* The keys of a std::map in iteration order.
MapOrder(m) == SelectSeq(NameOrder, LAMBDA n : n \in DOMAIN m)

\* ------------------------------------------------------- machine integers
\* An unsigned integer of w bytes is its little-endian bytes, byte i at index
\* i: the values of size_t (8 bytes) are beyond the integers of TLC.
ZeroBytes(w) == [i \in 0..(w - 1) |-> 0]

\* The bytes of n, 0 <= n < 2^31.
NatBytes(n, w) ==
    [i \in 0..(w - 1) |-> IF i < 4 THEN (n \div (256 ^ i)) % 256 ELSE 0]

\* The conversion of a signed x, -2^31 <= x < 2^31, to an unsigned integer of
\* w bytes: x modulo 2^(8w), two's complement for a negative x.
ToUnsigned(x, w) ==
    IF x >= 0 THEN NatBytes(x, w)
    ELSE [i \in 0..(w - 1) |-> 255 - NatBytes(-x - 1, w)[i]]

RECURSIVE ColumnSum(_, _, _, _)
ColumnSum(a, b, k, i) ==
    IF i > k THEN 0 ELSE a[i] * b[k - i] + ColumnSum(a, b, k, i + 1)

RECURSIVE ColumnTotal(_, _, _)
ColumnTotal(a, b, k) ==
    ColumnSum(a, b, k, 0) + (IF k = 0 THEN 0 ELSE ColumnTotal(a, b, k - 1) \div 256)

\* The product of two unsigned integers of w bytes, modulo 2^(8w).
MulBytes(a, b, w) == [k \in 0..(w - 1) |-> ColumnTotal(a, b, k) % 256]

\* The conversion of an int of 4 bytes to size_t: sign extension.
IntToSizeT(a) ==
    [i \in 0..7 |-> IF i < 4 THEN a[i] ELSE IF a[3] >= 128 THEN 255 ELSE 0]

\* 2^32 as a size_t.
FourGiB == [i \in 0..7 |-> IF i = 4 THEN 1 ELSE 0]

\* ------------------------------------------------------------ StatusMapper
EngineCodes ==
    {"kOk", "kNotFound", "kCorruption", "kNotSupported", "kInvalidArgument",
     "kIOError", "kMergeInProgress", "kIncomplete", "kShutdownInProgress",
     "kTimedOut", "kAborted", "kBusy", "kExpired", "kTryAgain"}

\* rocksdb::Status::Code, in the order of its enumerators from kOk = 0.
StatusCodeNames ==
    <<"kOk", "kNotFound", "kCorruption", "kNotSupported", "kInvalidArgument",
      "kIOError", "kMergeInProgress", "kIncomplete", "kShutdownInProgress",
      "kTimedOut", "kAborted", "kBusy", "kExpired", "kTryAgain">>

\* The enumerator of the code n, if it has one.
CodeName(n) ==
    IF n + 1 \in DOMAIN StatusCodeNames THEN StatusCodeNames[n + 1] ELSE "unlisted"

\* A conversion whose default case lets the status through as OK.
convertStatusDefaultOK(code) ==
    CASE code = "kOk" -> "OK"
      [] code = "kNotFound" -> "NotFound"
      [] code = "kCorruption" -> "Failure"
      [] code = "kNotSupported" -> "NotImplemented"
      [] code = "kInvalidArgument" -> "Invalid"
      [] code = "kIOError" -> "IOError"
      [] code = "kMergeInProgress" -> "Failure"
      [] code = "kIncomplete" -> "Failure"
      [] code = "kShutdownInProgress" -> "Failure"
      [] code = "kTimedOut" -> "Failure"
      [] code = "kAborted" -> "Failure"
      [] OTHER -> "OK"

convertStatus(code) ==
    CASE code = "kOk" -> "OK"
      [] code = "kNotFound" -> "NotFound"
      [] code = "kCorruption" -> "Failure"
      [] code = "kNotSupported" -> "NotImplemented"
      [] code = "kInvalidArgument" -> "Invalid"
      [] code = "kIOError" -> "IOError"
      [] code = "kMergeInProgress" -> "Failure"
      [] code = "kIncomplete" -> "Failure"
      [] code = "kShutdownInProgress" -> "Failure"
      [] code = "kTimedOut" -> "Failure"
      [] code = "kAborted" -> "Failure"
      [] OTHER -> "Failure"

\* ------------------------------------------------------------ write options
DefaultWriteOptions == [disableWAL |-> FALSE, sync |-> FALSE]

\* Write options that disable the write-ahead log in every mode.
CtorWriteOptionsNoWAL(mode) == [DefaultWriteOptions EXCEPT !.disableWAL = TRUE]

\* DB::DB: write_options_ for put, batch_write_options_ for WriteBatch::commit.
CtorWriteOptions(mode) ==
    IF mode = "BULK_LOAD"
    THEN [DefaultWriteOptions EXCEPT !.disableWAL = TRUE]
    ELSE DefaultWriteOptions

\* Batch write options that ask for no synchronous write in any mode.
CtorBatchWriteOptionsNoSync(mode) ==
    IF mode = "BULK_LOAD"
    THEN [DefaultWriteOptions EXCEPT !.disableWAL = TRUE]
    ELSE DefaultWriteOptions

CtorBatchWriteOptions(mode) ==
    IF mode = "BULK_LOAD"
    THEN [DefaultWriteOptions EXCEPT !.disableWAL = TRUE]
    ELSE [DefaultWriteOptions EXCEPT !.sync = TRUE]

\* ------------------------------------------------------------------ engine
\* What a read of column family cf sees: the memtable over the flushed table.
Visible(cf) == Overlay(sst[cf], mem[cf])

\* rocksdb::DB::Get: v_tmp stays empty (0) when the key is not found.
EngineGet(cf, key) ==
    IF key \in DOMAIN Visible(cf)
    THEN [code |-> "kOk", value |-> Visible(cf)[key]]
    ELSE [code |-> "kNotFound", value |-> 0]

\* The tables after one put under write options wo: the memtable always, the
\* write-ahead log unless disabled.
ApplyPut(tabs, wo, p) ==
    [mem |-> [tabs.mem EXCEPT ![p.coll] = TablePut(@, p.key, p.value)],
     wal |-> IF wo.disableWAL THEN tabs.wal
             ELSE [tabs.wal EXCEPT ![p.coll] = TablePut(@, p.key, p.value)]]

RECURSIVE ApplyPuts(_, _, _)
ApplyPuts(tabs, wo, puts) ==
    IF puts = <<>> THEN tabs
    ELSE ApplyPuts(ApplyPut(tabs, wo, Head(puts)), wo, Tail(puts))

\* rocksdb::DB::Write: the code the engine returns and the tables it leaves.
\* A read-only engine refuses; an engine failure (ioOk false) applies nothing;
\* otherwise the whole batch is applied in order.
EngineWrite(e, wo, puts, ioOk) ==
    IF e.eng = "ro" THEN [code |-> "kNotSupported", e |-> e]
    ELSE IF ~ioOk THEN [code |-> "kIOError", e |-> e]
    ELSE LET t == ApplyPuts([mem |-> e.mem, wal |-> e.wal], wo, puts)
         IN [code |-> "kOk", e |-> [e EXCEPT !.mem = t.mem, !.wal = t.wal]]

\* rocksdb::DB::Put is a Write of one put.
EnginePut(e, wo, p, ioOk) == EngineWrite(e, wo, <<p>>, ioOk)

\* The engine as one value, for the calls a handler makes in sequence.
EngineState ==
    [exists |-> dbExists, cfs |-> cfList, sst |-> sst, wal |-> wal,
     eng |-> eng, mem |-> mem, acq |-> hAcq, dbl |-> doubleFree,
     uaf |-> usedReleased]

\* The same open with error_if_exists left unset: an existing database that
\* holds only "default" is opened.
EngineOpenCreateNoErrorIfExists(e, ioOk) ==
    IF e.exists /\ Range(e.cfs) # {"default"}
    THEN [code |-> "kInvalidArgument", e |-> e]
    ELSE IF ~ioOk THEN [code |-> "kIOError", e |-> e]
    ELSE IF e.exists
    THEN [code |-> "kOk", e |-> [e EXCEPT !.eng = "rw", !.mem = e.wal]]
    ELSE [code |-> "kOk",
          e |-> [e EXCEPT !.exists = TRUE,
                          !.cfs = <<"default">>,
                          !.sst = [c \in {"default"} |-> EmptyTable],
                          !.wal = [c \in {"default"} |-> EmptyTable],
                          !.mem = [c \in {"default"} |-> EmptyTable],
                          !.eng = "rw"]]

\* rocksdb::DB::Open(options, dbPath, &rawdb) with create_if_missing and
\* error_if_exists: refuses an existing database with kInvalidArgument, else
\* creates one holding the column family "default".
EngineOpenCreate(e, ioOk) ==
    IF e.exists THEN [code |-> "kInvalidArgument", e |-> e]
    ELSE IF ~ioOk THEN [code |-> "kIOError", e |-> e]
    ELSE [code |-> "kOk",
          e |-> [e EXCEPT !.exists = TRUE,
                          !.cfs = <<"default">>,
                          !.sst = [c \in {"default"} |-> EmptyTable],
                          !.wal = [c \in {"default"} |-> EmptyTable],
                          !.mem = [c \in {"default"} |-> EmptyTable],
                          !.eng = "rw"]]

\* rocksdb::DB::ListColumnFamilies: the names in the manifest; an I/O error
\* when the manifest cannot be read, as on a path holding no database.
EngineListColumnFamilies(e, ioOk) ==
    IF ~e.exists \/ ~ioOk THEN [code |-> "kIOError", names |-> <<>>]
    ELSE [code |-> "kOk", names |-> e.cfs]

\* rocksdb::DB::Open / OpenForReadOnly with column family descriptors: on
\* success one handle per descriptor, in the descriptors' order, and the
\* memtables recovered from the write-ahead log; on failure no handle and no
\* engine are left to the caller.
EngineOpen(e, how, names, ioOk) ==
    IF ~e.exists \/ Range(names) # Range(e.cfs)
    THEN [code |-> "kInvalidArgument", handles |-> <<>>, e |-> e]
    ELSE IF ~ioOk THEN [code |-> "kIOError", handles |-> <<>>, e |-> e]
    ELSE [code |-> "kOk", handles |-> names,
          e |-> [e EXCEPT !.eng = how, !.mem = e.wal,
                          !.acq = e.acq \cup Range(names)]]

\* rocksdb::DB::CreateColumnFamily
EngineCreateColumnFamily(e, name, ioOk) ==
    IF e.eng = "ro" THEN [code |-> "kNotSupported", e |-> e]
    ELSE IF name \in Range(e.cfs) THEN [code |-> "kInvalidArgument", e |-> e]
    ELSE IF ~ioOk THEN [code |-> "kIOError", e |-> e]
    ELSE [code |-> "kOk",
          e |-> [e EXCEPT !.cfs = Append(e.cfs, name),
                          !.sst = [c \in DOMAIN e.sst \cup {name} |->
                                     IF c = name THEN EmptyTable ELSE e.sst[c]],
                          !.wal = [c \in DOMAIN e.wal \cup {name} |->
                                     IF c = name THEN EmptyTable ELSE e.wal[c]],
                          !.mem = [c \in DOMAIN e.mem \cup {name} |->
                                     IF c = name THEN EmptyTable ELSE e.mem[c]],
                          !.acq = e.acq \cup {name}]]

\* rocksdb::DB::Flush of one column family: the memtable goes to disk and the
\* log no longer needs its writes.  A failed flush changes nothing.
EngineFlush(e, cf, ioOk) ==
    IF ~ioOk \/ e.eng # "rw" THEN e
    ELSE [e EXCEPT !.sst[cf] = Overlay(@, e.mem[cf]),
                   !.mem[cf] = EmptyTable,
                   !.wal[cf] = EmptyTable]

\* delete of a column family handle
EngineDeleteHandle(e, h) ==
    [e EXCEPT !.acq = @ \ {h}, !.dbl = @ \/ h \notin e.acq]

\* A call through an engine handle that was deleted.
EngineUseReleased(e) == [e EXCEPT !.uaf = TRUE]

\* The codes a call can come back with: any at all once the engine handle
\* it goes through was deleted, where its behaviour is undefined.
ReleasedCodes(e) == IF e.eng = "closed" THEN EngineCodes ELSE {"kOk"}

\* delete of the engine handle: the memtables go with the process memory
EngineDeleteDB(e) ==
    [e EXCEPT !.eng = "closed", !.mem = NoTables, !.dbl = @ \/ e.eng = "closed"]

\* One engine call of a handler's call sequence.  CompactRange and SyncWAL
\* leave the stored contents as they are.
EngineCall(e, call, failed) ==
    CASE call[1] = "Flush" -> EngineFlush(e, call[2], call[2] \notin failed)
      [] call[1] = "deleteHandle" -> EngineDeleteHandle(e, call[2])
      [] call[1] = "deleteDB" -> EngineDeleteDB(e)
      [] OTHER -> e

RECURSIVE EngineCalls(_, _, _)
EngineCalls(e, calls, failed) ==
    IF calls = <<>> THEN e
    ELSE EngineCalls(EngineCall(e, Head(calls), failed), Tail(calls), failed)

\* The engine variables take the value e.
SetEngine(e) ==
    /\ dbExists' = e.exists
    /\ cfList' = e.cfs
    /\ sst' = e.sst
    /\ wal' = e.wal
    /\ eng' = e.eng
    /\ mem' = e.mem
    /\ hAcq' = e.acq
    /\ doubleFree' = e.dbl
    /\ usedReleased' = e.uaf

\* ------------------------------------------------------------------- Init
\* No static helper has been called: convertStatus was given no status, and
\* totalRAM's memoized is zero (line 26) on a machine of one page.
NoStaticCall ==
    /\ statusCode = 0
    /\ physPages = 1
    /\ pageSize = 1
    /\ memoized = ZeroBytes(8)

\* No database at the path, and no object made.
NoDatabase ==
    /\ dbExists = FALSE
    /\ cfList = <<>>
    /\ sst = NoTables
    /\ wal = NoTables
    /\ eng = "closed"
    /\ mem = NoTables
    /\ hAcq = {}
    /\ db = "none"
    /\ mode_ = "NORMAL"
    /\ coll2handle_ = NoTables
    /\ write_options_ = DefaultWriteOptions
    /\ batch_write_options_ = DefaultWriteOptions
    /\ wb = "none"
    /\ staged = <<>>
    /\ it = "none"
    /\ itKeys = <<>>
    /\ itVals = EmptyTable
    /\ itPos = 1
    /\ itStatus = "kOk"
    /\ key_ = <<>>
    /\ value_ = 0
    /\ ret = [op |-> "none", status |-> "OK"]
    /\ dtorLog = NoDtor
    /\ doubleFree = FALSE
    /\ usedReleased = FALSE
    /\ roSnapshot = <<>>
    /\ closedView = <<>>
    /\ wbDone = 0
    /\ droppedStaged = FALSE
    /\ written = EmptyTable
    /\ itStart = <<>>
    /\ visited = <<>>
    /\ itEnded = "no"

Init == NoDatabase /\ NoStaticCall /\ threads = NoThreads


\* ---------------------------------------------------------------- DB object
Returned(op, status) == ret' = [op |-> op, status |-> status]

\* DB::DB: the members of a constructed object.
Construct(mode, c2h) ==
    /\ db' = "live"
    /\ mode_' = mode
    /\ coll2handle_' = c2h
    /\ write_options_' = CtorWriteOptions(mode)
    /\ batch_write_options_' = CtorBatchWriteOptions(mode)

\* No object: the caller's unique_ptr is empty.
NoObject ==
    /\ db' = "none"
    /\ mode_' = "NORMAL"
    /\ coll2handle_' = NoTables
    /\ write_options_' = DefaultWriteOptions
    /\ batch_write_options_' = DefaultWriteOptions

\* DB::Initialize.  allocOk false is `new DB` yielding no object.
Initialize ==
    /\ db = "none"
    /\ \E ioOk \in BOOLEAN, allocOk \in BOOLEAN :
         LET s == EngineOpenCreate(EngineState, ioOk)
         IN  IF s.code # "kOk"
             THEN /\ Returned("Initialize", convertStatus(s.code))
                  /\ SetEngine(s.e)
                  /\ UNCHANGED dbVars
             ELSE IF ~allocOk
             THEN /\ Returned("Initialize", "Failure")
                  /\ SetEngine(EngineDeleteDB(s.e))
                  /\ UNCHANGED dbVars
             ELSE /\ Returned("Initialize", "OK")
                  /\ SetEngine(s.e)
                  /\ Construct("NORMAL", NoTables)
    /\ dtorLog' = NoDtor
    /\ droppedStaged' = FALSE
    /\ UNCHANGED <<wbVars, itVars, roSnapshot, closedView, written>>
    /\ UNCHANGED <<staticVars, threads>>

\* An Open that opens read-write whatever the mode.
OpenHowAlwaysRW(mode) == "rw"

\* DB::Open, lines 345-351: which engine open the mode selects.
OpenHow(mode) == IF mode = "READ_ONLY" THEN "ro" ELSE "rw"

\* A fill that pairs the names with the handles in reverse.
FillColl2HandleReversed(names, handles) ==
    [n \in Range(names) |->
        handles[Len(names) + 1 - CHOOSE i \in 1..Len(names) : names[i] = n]]

\* DB::Open, lines 358-361: coll2handle[column_family_names[i]] =
\* column_family_handles[i] for i below column_families.size().
FillColl2Handle(names, handles) ==
    [n \in Range(names) |->
        handles[CHOOSE i \in 1..Len(names) :
                  /\ names[i] = n
                  /\ \A j \in (i+1)..Len(names) : names[j] # n]]

\* A cleanup that forgets the collection handles.
OpenCleanupLeaky(handles) == <<<<"deleteDB", "">>>>

\* DB::Open, lines 364-367: the calls that give back what the engine opened.
OpenCleanup(handles) ==
    [i \in 1..Len(handles) |-> <<"deleteHandle", handles[i]>>] \o <<<<"deleteDB", "">>>>

\* The stored contents: the column families, what a read of each sees, and
\* what is on disk.
ContentsOf(e) ==
    [cfs |-> Range(e.cfs),
     view |-> [c \in Range(e.cfs) |-> Overlay(e.sst[c], e.mem[c])],
     sst |-> e.sst,
     wal |-> e.wal]

Contents == ContentsOf(EngineState)

\* The <<collection, key>> pairs a read finds, with their values.
Found ==
    [p \in UNION {{<<c, k>> : k \in DOMAIN Visible(c)} : c \in Range(cfList)}
       |-> Visible(p[1])[p[2]]]

RECURSIVE WriteAll(_, _)
WriteAll(w, puts) ==
    IF puts = <<>> THEN w
    ELSE WriteAll(TablePut(w, <<Head(puts).coll, Head(puts).key>>, Head(puts).value),
                  Tail(puts))

\* DB::Open.
Open(mode) ==
    /\ db = "none"
    /\ \E listOk \in BOOLEAN, openOk \in BOOLEAN, allocOk \in BOOLEAN :
         LET ls == EngineListColumnFamilies(EngineState, listOk)
             column_family_names == ls.names
             o == EngineOpen(EngineState, OpenHow(mode), column_family_names, openOk)
         IN  IF ls.code # "kOk"
             THEN /\ Returned("Open", convertStatus(ls.code))
                  /\ UNCHANGED <<diskVars, engVars, doubleFree, usedReleased, dbVars, roSnapshot>>
             ELSE IF o.code # "kOk"
             THEN /\ Returned("Open", convertStatus(o.code))
                  /\ SetEngine(o.e)
                  /\ UNCHANGED <<dbVars, roSnapshot>>
             ELSE IF ~allocOk
             THEN /\ Returned("Open", "Failure")
                  /\ SetEngine(EngineCalls(o.e, OpenCleanup(o.handles), {}))
                  /\ UNCHANGED <<dbVars, roSnapshot>>
             ELSE /\ Returned("Open", "OK")
                  /\ SetEngine(o.e)
                  /\ Construct(mode, FillColl2Handle(column_family_names, o.handles))
                  /\ roSnapshot' = IF mode = "READ_ONLY" THEN <<ContentsOf(o.e)>> ELSE <<>>
    /\ dtorLog' = NoDtor
    /\ droppedStaged' = FALSE
    /\ written' = IF ret'.status = "OK" THEN Found' ELSE written
    /\ UNCHANGED <<wbVars, itVars, closedView>>
    /\ UNCHANGED <<staticVars, threads>>

\* A destructor that deletes the engine handle before the collection handles.
DtorCallsEngineFirst(mode, c2h) ==
    LET order == MapOrder(c2h)
        each(what) == [i \in 1..Len(order) |-> <<what, c2h[order[i]]>>]
    IN  (IF mode = "BULK_LOAD" THEN each("CompactRange") ELSE <<>>)
        \o (IF mode # "READ_ONLY"
            THEN <<<<"SyncWAL", "">>>> \o each("Flush")
            ELSE <<>>)
        \o <<<<"deleteDB", "">>>>
        \o each("deleteHandle")

\* DB::~DB: the engine calls it makes, in order.
DtorCalls(mode, c2h) ==
    LET order == MapOrder(c2h)
        each(what) == [i \in 1..Len(order) |-> <<what, c2h[order[i]]>>]
    IN  (IF mode = "BULK_LOAD" THEN each("CompactRange") ELSE <<>>)
        \o (IF mode # "READ_ONLY"
            THEN <<<<"SyncWAL", "">>>> \o each("Flush")
            ELSE <<>>)
        \o each("deleteHandle")
        \o <<<<"deleteDB", "">>>>

\* DB::~DB, when the caller's unique_ptr lets go of the object.  A flush may
\* fail; the destructor does not look at what Flush returns.  It looks at no
\* WriteBatch, Reader or Iterator made from the object either: those keep
\* their db_ and their cursor.
DBDestructor ==
    /\ db = "live"
    /\ \E failed \in SUBSET (IF mode_ = "READ_ONLY" THEN {} ELSE Range(cfList)) :
         SetEngine(EngineCalls(EngineState, DtorCalls(mode_, coll2handle_), failed))
    /\ dtorLog' = [mode |-> mode_, colls |-> coll2handle_,
                    calls |-> DtorCalls(mode_, coll2handle_)]
    /\ NoObject
    /\ closedView' = IF mode_ = "NORMAL"
                     THEN <<[cfs |-> Contents.cfs, view |-> Contents.view,
                             dropped |-> droppedStaged]>>
                     ELSE <<>>
    /\ roSnapshot' = <<>>
    /\ Returned("~DB", "OK")
    /\ written' = EmptyTable
    /\ UNCHANGED <<wbVars, itVars, droppedStaged>>
    /\ UNCHANGED <<staticVars, threads>>

\* ~DB by a caller that has let go of its WriteBatch and Iterator first.
DBDestroy ==
    /\ wb = "none"
    /\ it = "none"
    /\ DBDestructor

\* DB::collection
Collection(name) ==
    IF name \in DOMAIN coll2handle_
    THEN [status |-> "OK", coll |-> coll2handle_[name]]
    ELSE [status |-> "NotFound", coll |-> ""]

\* The handles a caller can hold: those collection() returns.
Handles == {coll2handle_[n] : n \in DOMAIN coll2handle_}

\* A create_collection that does not look the name up first.
CreateCollectionUnchecked(name) ==
    /\ db = "live"
    /\ \E ioOk \in BOOLEAN :
         LET s == EngineCreateColumnFamily(EngineState, name, ioOk)
         IN  IF s.code # "kOk"
             THEN /\ Returned("create_collection", convertStatus(s.code))
                  /\ SetEngine(s.e)
                  /\ UNCHANGED coll2handle_
             ELSE /\ Returned("create_collection", "OK")
                  /\ SetEngine(s.e)
                  /\ coll2handle_' =
                       [n \in DOMAIN coll2handle_ \cup {name} |->
                          IF n = name THEN name ELSE coll2handle_[n]]
    /\ closedView' = <<>>
    /\ UNCHANGED <<db, mode_, write_options_, batch_write_options_, wbVars, itVars,
                   dtorLog, roSnapshot, droppedStaged, written>>
    /\ UNCHANGED <<staticVars, threads>>

\* DB::create_collection
CreateCollection(name) ==
    /\ db = "live"
    /\ \E ioOk \in BOOLEAN :
         IF name \in DOMAIN coll2handle_
         THEN /\ Returned("create_collection", "Exists")
              /\ UNCHANGED <<diskVars, engVars, doubleFree, usedReleased, coll2handle_>>
         ELSE LET s == EngineCreateColumnFamily(EngineState, name, ioOk)
              IN  IF s.code # "kOk"
                  THEN /\ Returned("create_collection", convertStatus(s.code))
                       /\ SetEngine(s.e)
                       /\ UNCHANGED coll2handle_
                  ELSE /\ Returned("create_collection", "OK")
                       /\ SetEngine(s.e)
                       /\ coll2handle_' =
                            [n \in DOMAIN coll2handle_ \cup {name} |->
                               IF n = name THEN name ELSE coll2handle_[n]]
    /\ closedView' = <<>>
    /\ UNCHANGED <<db, mode_, write_options_, batch_write_options_, wbVars, itVars,
                   dtorLog, roSnapshot, droppedStaged, written>>
    /\ UNCHANGED <<staticVars, threads>>

\* DB::get
DBGet(coll, key) ==
    LET s == EngineGet(coll, key)
    IN  [status |-> convertStatus(s.code), value |-> s.value]

\* Reader::get, on the Reader that DB::current binds to db_
ReaderGet(coll, key) ==
    LET s == EngineGet(coll, key)
    IN  [status |-> convertStatus(s.code), value |-> s.value]

\* A put that writes to the collection "default" whatever the handle.
PutResultWrongColl(e, wo, coll, key, value, ioOk) ==
    LET s == EnginePut(e, wo, [coll |-> "default", key |-> key, value |-> value], ioOk)
    IN  [status |-> convertStatus(s.code), e |-> s.e]

\* DB::put: the engine after the call, and the status returned.
PutResult(e, wo, coll, key, value, ioOk) ==
    LET s == EnginePut(e, wo, [coll |-> coll, key |-> key, value |-> value], ioOk)
    IN  [status |-> convertStatus(s.code), e |-> s.e]

DBPut(coll, key, value) ==
    /\ db = "live"
    /\ coll \in Handles
    /\ \E ioOk \in BOOLEAN :
         LET r == PutResult(EngineState, write_options_, coll, key, value, ioOk)
         IN  /\ Returned("put", r.status)
             /\ SetEngine(r.e)
             /\ written' = IF r.status = "OK"
                           THEN TablePut(written, <<coll, key>>, value)
                           ELSE written
    /\ closedView' = <<>>
    /\ UNCHANGED <<dbVars, wbVars, itVars, dtorLog, roSnapshot, droppedStaged>>
    /\ UNCHANGED <<staticVars, threads>>

\* ---------------------------------------------------------------- WriteBatch
\* DB::begin_writes
BeginWrites ==
    /\ db = "live"
    /\ wb = "none"
    /\ wb' = "open"
    /\ staged' = <<>>
    /\ wbDone' = 0
    /\ Returned("begin_writes", "OK")
    /\ closedView' = <<>>
    /\ UNCHANGED <<diskVars, engVars, dbVars, itVars, dtorLog, doubleFree, usedReleased, roSnapshot,
                   droppedStaged, written>>
    /\ UNCHANGED <<staticVars, threads>>

\* A WriteBatch::put that also writes the put through to the engine.
StageResultWriteThrough(e, batch, coll, key, value) ==
    [status |-> "OK",
     e |-> EnginePut(e, DefaultWriteOptions,
                     [coll |-> coll, key |-> key, value |-> value], TRUE).e,
     batch |-> Append(batch, [coll |-> coll, key |-> key, value |-> value])]

\* WriteBatch::put: wb_ and the engine after the call, and the status returned.
StageResult(e, batch, coll, key, value) ==
    [status |-> "OK", e |-> e,
     batch |-> Append(batch, [coll |-> coll, key |-> key, value |-> value])]

WBPut(coll, key, value) ==
    /\ wb = "open"
    /\ Len(staged) < MaxStaged
    /\ coll \in Handles
    /\ LET r == StageResult(EngineState, staged, coll, key, value)
       IN  /\ Returned("wb_put", r.status)
           /\ SetEngine(r.e)
           /\ staged' = r.batch
    /\ closedView' = <<>>
    /\ UNCHANGED <<dbVars, wb, wbDone, itVars, dtorLog, roSnapshot, droppedStaged,
                   written>>
    /\ UNCHANGED <<staticVars, threads>>

\* A commit that writes the staged puts one Put at a time: an engine failure
\* then strikes after the first put has been written.
CommitResultPerPut(e, wo, batch, ioOk) ==
    IF ioOk \/ batch = <<>> \/ e.eng = "ro"
    THEN LET s == EngineWrite(e, wo, batch, ioOk)
         IN  [status |-> convertStatus(s.code), e |-> s.e]
    ELSE [status |-> convertStatus("kIOError"),
          e |-> EnginePut(e, wo, Head(batch), TRUE).e]

\* WriteBatch::commit: the engine after the call, and the status returned.
CommitResult(e, wo, batch, ioOk) ==
    LET s == EngineWrite(e, wo, batch, ioOk)
    IN  [status |-> convertStatus(s.code), e |-> s.e]

\* db_ is the pointer the batch was made with (line 245): once ~DB has
\* deleted the engine, Write goes through a released handle.
WBCommit ==
    /\ wb = "open"
    /\ \E ioOk \in BOOLEAN, ub \in ReleasedCodes(EngineState) :
         IF eng = "closed"
         THEN /\ Returned("commit", convertStatus(ub))
              /\ SetEngine(EngineUseReleased(EngineState))
              /\ UNCHANGED <<wbDone, written>>
         ELSE LET r == CommitResult(EngineState, batch_write_options_, staged, ioOk)
              IN  /\ Returned("commit", r.status)
                  /\ SetEngine(r.e)
                  /\ wbDone' = IF r.status = "OK" THEN Len(staged) ELSE wbDone
                  /\ written' = IF r.status = "OK" THEN WriteAll(written, staged)
                                ELSE written
    /\ closedView' = <<>>
    /\ UNCHANGED <<dbVars, wb, staged, itVars, dtorLog, roSnapshot, droppedStaged>>
    /\ UNCHANGED <<staticVars, threads>>

\* WriteBatch::~WriteBatch
WBDestroy ==
    /\ wb = "open"
    /\ wb' = "none"
    /\ staged' = <<>>
    /\ wbDone' = 0
    /\ droppedStaged' = (droppedStaged \/ wbDone < Len(staged))
    /\ Returned("~WriteBatch", "OK")
    /\ closedView' = <<>>
    /\ UNCHANGED <<diskVars, engVars, dbVars, itVars, dtorLog, doubleFree, usedReleased, roSnapshot,
                   written>>
    /\ UNCHANGED <<staticVars, threads>>

\* destroy(dbPath): DestroyDB, then rm -rf.  Called with no engine open on
\* the path.
DestroyPath ==
    /\ db = "none"
    /\ dbExists' = FALSE
    /\ cfList' = <<>>
    /\ sst' = NoTables
    /\ wal' = NoTables
    /\ Returned("destroy", convertStatus("kOk"))
    /\ dtorLog' = NoDtor
    /\ closedView' = <<>>
    /\ droppedStaged' = FALSE
    /\ UNCHANGED written
    /\ UNCHANGED <<engVars, dbVars, wbVars, itVars, doubleFree, usedReleased, roSnapshot>>
    /\ UNCHANGED <<staticVars, threads>>

\* ------------------------------------------------------------------ Iterator
\* Byte-wise comparison of keys, the engine's default comparator.
RECURSIVE LexLess(_, _)
LexLess(a, b) ==
    IF b = <<>> THEN FALSE
    ELSE IF a = <<>> THEN TRUE
    ELSE IF Head(a) # Head(b) THEN Head(a) < Head(b)
    ELSE LexLess(Tail(a), Tail(b))

\* The keys of a set in the comparator's order.
RECURSIVE SortKeys(_)
SortKeys(S) ==
    IF S = {} THEN <<>>
    ELSE LET least == CHOOSE k \in S : \A x \in S \ {k} : LexLess(k, x)
         IN  <<least>> \o SortKeys(S \ {least})

\* A positioning that goes to the first key whatever the startKey.
SeekPositionFirst(keys, key) == 1

\* Reader::iterator, lines 219-223: SeekToFirst for an empty key, else Seek,
\* which stops at the first key not below the one sought.
SeekPosition(keys, key) ==
    IF key = <<>> THEN 1
    ELSE LET at == {i \in 1..Len(keys) : ~LexLess(keys[i], key)}
         IN  IF at = {} THEN Len(keys) + 1
             ELSE CHOOSE i \in at : \A j \in at : i <= j

\* rocksdb::Iterator::Valid of a cursor at position pos with status code st.
CursorValid(keys, pos, st) == st = "kOk" /\ pos \in 1..Len(keys)

\* Iterator::valid
IteratorValid == CursorValid(itKeys, itPos, itStatus)

\* How the caller's loop stands once valid() has answered for the cursor.
LoopAfter(ended, keys, pos, st) ==
    IF ended # "no" THEN ended
    ELSE IF CursorValid(keys, pos, st) THEN "no"
    ELSE IF st = "kOk" THEN "end"
    ELSE "error"

\* Reader::iterator.  allocOk false is NewIterator yielding no cursor, seekOk
\* false a seek that leaves the cursor with an error status.  The cursor reads
\* the collection as it is when the cursor is made.
ReaderIterator(coll, key) ==
    /\ db = "live"
    /\ coll \in Handles
    /\ \E allocOk \in BOOLEAN, seekOk \in BOOLEAN :
         LET keys == SortKeys(DOMAIN Visible(coll))
             pos == SeekPosition(keys, key)
         IN  IF ~allocOk
             THEN /\ Returned("iterator", "Failure")
                  /\ UNCHANGED itVars
             ELSE IF ~seekOk
             THEN /\ Returned("iterator", convertStatus("kIOError"))
                  /\ UNCHANGED itVars
             ELSE /\ Returned("iterator", "OK")
                  /\ it' = "open"
                  /\ itKeys' = keys
                  /\ itVals' = Visible(coll)
                  /\ itPos' = pos
                  /\ itStatus' = "kOk"
                  /\ key_' = IF CursorValid(keys, pos, "kOk") THEN keys[pos] ELSE <<>>
                  /\ value_' = IF CursorValid(keys, pos, "kOk")
                               THEN Visible(coll)[keys[pos]] ELSE 0
                  /\ itStart' = key
                  /\ visited' = IF CursorValid(keys, pos, "kOk") THEN <<keys[pos]>>
                                ELSE <<>>
                  /\ itEnded' = LoopAfter("no", keys, pos, "kOk")
    /\ closedView' = <<>>
    /\ UNCHANGED <<diskVars, engVars, dbVars, wbVars, dtorLog, doubleFree, usedReleased, roSnapshot,
                   droppedStaged, written>>
    /\ UNCHANGED <<staticVars, threads>>

\* rocksdb::Iterator::Next, which requires Valid(): the positions it can leave
\* the cursor at.  From a cursor that is not Valid() the outcome is undefined.
CursorNext(keys, pos, st) ==
    IF CursorValid(keys, pos, st) THEN {pos + 1} ELSE 1..(Len(keys) + 1)

\* The status codes a Next can leave on the cursor.
NextCodes == {"kOk", "kIOError", "kCorruption"}

\* A next that empties key_ and value_ when it does not cache an entry.
CachedEntryOrEmpty(keys, vals, pos, st, old) ==
    IF CursorValid(keys, pos, st)
    THEN [key |-> keys[pos], value |-> vals[keys[pos]]]
    ELSE [key |-> <<>>, value |-> 0]

\* A next that never caches.
CachedEntryStale(keys, vals, pos, st, old) == old

\* Iterator::next, lines 170-176: key_ and value_ once Next has left the
\* cursor at pos with status st.  They are assigned only when the status is
\* ok and the cursor Valid().
CachedEntry(keys, vals, pos, st, old) ==
    IF CursorValid(keys, pos, st)
    THEN [key |-> keys[pos], value |-> vals[keys[pos]]]
    ELSE old

\* Iterator::next.  A Next may leave the cursor with an error status, and
\* then not Valid().  The cursor reads the engine it was made from: once ~DB has
\* deleted that, iter_->status() goes through released memory.
IteratorNext ==
    /\ it = "open"
    /\ \E st \in NextCodes, pos \in CursorNext(itKeys, itPos, itStatus),
          ub \in ReleasedCodes(EngineState) :
         IF eng = "closed"
         THEN /\ Returned("next", convertStatus(ub))
              /\ UNCHANGED itVars
         ELSE IF itStatus # "kOk"
         THEN /\ Returned("next", convertStatus(itStatus))
              /\ UNCHANGED itVars
         ELSE IF st # "kOk"
         THEN /\ Returned("next", convertStatus(st))
              /\ itStatus' = st
              /\ itPos' = Len(itKeys) + 1
              /\ itEnded' = LoopAfter(itEnded, itKeys, Len(itKeys) + 1, st)
              /\ key_' = CachedEntry(itKeys, itVals, Len(itKeys) + 1, st,
                                     [key |-> key_, value |-> value_]).key
              /\ value_' = CachedEntry(itKeys, itVals, Len(itKeys) + 1, st,
                                       [key |-> key_, value |-> value_]).value
              /\ UNCHANGED <<it, itKeys, itVals, itStart, visited>>
         ELSE /\ Returned("next", "OK")
              /\ itPos' = pos
              /\ key_' = CachedEntry(itKeys, itVals, pos, "kOk",
                                     [key |-> key_, value |-> value_]).key
              /\ value_' = CachedEntry(itKeys, itVals, pos, "kOk",
                                       [key |-> key_, value |-> value_]).value
              /\ itEnded' = LoopAfter(itEnded, itKeys, pos, "kOk")
              /\ visited' = IF itEnded' = "no" THEN Append(visited, key_') ELSE visited
              /\ UNCHANGED <<it, itKeys, itVals, itStatus, itStart>>
    /\ usedReleased' = (usedReleased \/ eng = "closed")
    /\ closedView' = <<>>
    /\ UNCHANGED <<diskVars, engVars, dbVars, wbVars, dtorLog, doubleFree, roSnapshot,
                   droppedStaged, written>>
    /\ UNCHANGED <<staticVars, threads>>

\* The caller's unique_ptr<Iterator> lets go of the iterator, and iter_ of
\* the cursor, which gives back what it holds of the engine.
IteratorDestroy ==
    /\ it = "open"
    /\ it' = "none"
    /\ itKeys' = <<>>
    /\ itVals' = EmptyTable
    /\ itPos' = 1
    /\ itStatus' = "kOk"
    /\ key_' = <<>>
    /\ value_' = 0
    /\ itStart' = <<>>
    /\ visited' = <<>>
    /\ itEnded' = "no"
    /\ Returned("~Iterator", "OK")
    /\ usedReleased' = (usedReleased \/ eng = "closed")
    /\ closedView' = <<>>
    /\ UNCHANGED <<diskVars, engVars, dbVars, wbVars, dtorLog, doubleFree, roSnapshot,
                   droppedStaged, written>>
    /\ UNCHANGED <<staticVars, threads>>

Next ==
    \/ Initialize
    \/ \E mode \in OpenModes : Open(mode)
    \/ DBDestroy
    \/ \E name \in Names : CreateCollection(name)
    \/ \E c \in Names, k \in LifeKeys, v \in Vals : DBPut(c, k, v)
    \/ BeginWrites
    \/ \E c \in Names, k \in LifeKeys, v \in BatchVals : WBPut(c, k, v)
    \/ WBCommit
    \/ WBDestroy
    \/ DestroyPath

Spec == Init /\ [][Next]_vars

\* ------------------------------------------------------- reads and writes
\* A database holding the collections "default" and "a", opened in any mode:
\* the state after Initialize, create_collection("a"), ~DB and Open(mode).
\* "default" holds the key <<1>>, written and flushed by an earlier database.
OpenedData ==
    /\ dbExists = TRUE
    /\ cfList = <<"default", "a">>
    /\ sst = [c \in {"default", "a"} |->
                IF c = "default" THEN [k \in {<<1>>} |-> 1] ELSE EmptyTable]
    /\ written = [p \in {<<"default", <<1>>>>} |-> 1]
    /\ wal = [c \in {"default", "a"} |-> EmptyTable]
    /\ mem = [c \in {"default", "a"} |-> EmptyTable]
    /\ hAcq = {"default", "a"}
    /\ db = "live"
    /\ \E mode \in OpenModes :
         /\ eng = OpenHow(mode)
         /\ mode_ = mode
         /\ write_options_ = CtorWriteOptions(mode)
         /\ batch_write_options_ = CtorBatchWriteOptions(mode)
    /\ coll2handle_ = FillColl2Handle(cfList, cfList)
    /\ wb = "none"
    /\ staged = <<>>
    /\ wbDone = 0
    /\ it = "none"
    /\ itKeys = <<>>
    /\ itVals = EmptyTable
    /\ itPos = 1
    /\ itStatus = "kOk"
    /\ key_ = <<>>
    /\ value_ = 0
    /\ ret = [op |-> "Open", status |-> "OK"]
    /\ dtorLog = NoDtor
    /\ doubleFree = FALSE
    /\ usedReleased = FALSE
    /\ roSnapshot = IF mode_ = "READ_ONLY" THEN <<Contents>> ELSE <<>>
    /\ closedView = <<>>
    /\ droppedStaged = FALSE
    /\ itStart = <<>>
    /\ visited = <<>>
    /\ itEnded = "no"

InitData == OpenedData /\ NoStaticCall /\ threads = NoThreads

NextData ==
    \/ \E c \in Names, k \in PutKeys, v \in Vals : DBPut(c, k, v)
    \/ BeginWrites
    \/ \E c \in Names, k \in PutKeys, v \in BatchVals : WBPut(c, k, v)
    \/ WBCommit
    \/ WBDestroy

SpecData == InitData /\ [][NextData]_vars

\* ---------------------------------------------------------------- iteration
\* A NORMAL database holding the empty collections "default" and "a": the
\* state after Initialize, create_collection("a"), ~DB and Open(NORMAL).
InitIter ==
    /\ dbExists = TRUE
    /\ cfList = <<"default", "a">>
    /\ sst = [c \in {"default", "a"} |-> EmptyTable]
    /\ written = EmptyTable
    /\ wal = [c \in {"default", "a"} |-> EmptyTable]
    /\ mem = [c \in {"default", "a"} |-> EmptyTable]
    /\ hAcq = {"default", "a"}
    /\ db = "live"
    /\ eng = OpenHow("NORMAL")
    /\ mode_ = "NORMAL"
    /\ write_options_ = CtorWriteOptions("NORMAL")
    /\ batch_write_options_ = CtorBatchWriteOptions("NORMAL")
    /\ coll2handle_ = FillColl2Handle(cfList, cfList)
    /\ wb = "none"
    /\ staged = <<>>
    /\ wbDone = 0
    /\ it = "none"
    /\ itKeys = <<>>
    /\ itVals = EmptyTable
    /\ itPos = 1
    /\ itStatus = "kOk"
    /\ key_ = <<>>
    /\ value_ = 0
    /\ ret = [op |-> "Open", status |-> "OK"]
    /\ dtorLog = NoDtor
    /\ doubleFree = FALSE
    /\ usedReleased = FALSE
    /\ roSnapshot = <<>>
    /\ closedView = <<>>
    /\ droppedStaged = FALSE
    /\ itStart = <<>>
    /\ visited = <<>>
    /\ itEnded = "no"
    /\ NoStaticCall
    /\ threads = NoThreads

\* Keys are put to the collection "a"; either collection is iterated.
NextIter ==
    \/ \E k \in IterKeys, v \in BatchVals : DBPut("a", k, v)
    \/ \E c \in Names, k \in IterKeys \cup {<<>>} : ReaderIterator(c, k)
    \/ IteratorNext
    \/ IteratorDestroy

SpecIter == InitIter /\ [][NextIter]_vars

\* -------------------------------------------------------- concurrent commits
\* Two threads, each with a WriteBatch of its own from begin_writes.
Threads == {1, 2}

\* The batches thread t may have staged: up to MaxStaged puts to the keys of
\* collection "a", of a value that tells the threads apart.
ThreadBatches(t) ==
    UNION {[1..n -> [coll : {"a"}, key : PutKeys, value : {t}]] : n \in 1..MaxStaged}

\* The opened database, and each thread with its batch staged.
InitThreads ==
    /\ OpenedData
    /\ NoStaticCall
    /\ \E b1 \in ThreadBatches(1), b2 \in ThreadBatches(2) :
         threads = [t \in Threads |->
                      [wb_ |-> IF t = 1 THEN b1 ELSE b2, pc |-> "idle",
                       todo |-> <<>>, status |-> "OK"]]

\* A commit that gives the engine one Write for each staged put.
CommitWritesPerPut(batch) == [i \in 1..Len(batch) |-> <<batch[i]>>]

\* WriteBatch::commit, line 264: the engine writes it makes, one Write of the
\* whole wb_.
CommitWrites(batch) == <<batch>>

\* Thread t enters WriteBatch::commit on its batch.
CommitCall(t) ==
    /\ db = "live"
    /\ threads[t].pc = "idle"
    /\ threads' = [threads EXCEPT ![t].pc = "writing",
                                  ![t].todo = CommitWrites(threads[t].wb_)]
    /\ UNCHANGED <<diskVars, engVars, dbVars, wbVars, itVars, ret, dtorLog, histVars,
                   written, staticVars>>

\* The engine takes thread t's Write, whole, at some moment between the
\* other thread's steps, and commit returns its status.
CommitWrite(t) ==
    /\ threads[t].pc = "writing"
    /\ \E ioOk \in BOOLEAN :
         LET r == CommitResult(EngineState, batch_write_options_,
                               Head(threads[t].todo), ioOk)
             last == r.status # "OK" \/ Len(threads[t].todo) = 1
         IN  /\ SetEngine(r.e)
             /\ threads' = [threads EXCEPT ![t].todo = Tail(@),
                                           ![t].status = r.status,
                                           ![t].pc = IF last THEN "done" ELSE "writing"]
             /\ written' = IF r.status = "OK"
                           THEN WriteAll(written, Head(threads[t].todo))
                           ELSE written
             /\ ret' = IF last THEN [op |-> "commit", status |-> r.status] ELSE ret
    /\ UNCHANGED <<dbVars, wbVars, itVars, dtorLog, roSnapshot, closedView,
                   droppedStaged, staticVars>>

NextThreads ==
    \/ \E t \in Threads : CommitCall(t)
    \/ \E t \in Threads : CommitWrite(t)

SpecThreads == InitThreads /\ [][NextThreads]_vars

\* ----------------------------------------------------------------- totalRAM
\* What sysconf can return (a long): -1 when the query fails, else a count.
PhysPagesValues == {-1, 0, 1, 2, 3, 1024, 1048576, 16777216}
PageSizeValues == {-1, 0, 1, 512, 4096, 16384, 65536}

InitRAM ==
    /\ NoDatabase
    /\ statusCode = 0
    /\ physPages \in PhysPagesValues
    /\ pageSize \in PageSizeValues
    /\ memoized = ZeroBytes(8)
    /\ threads = NoThreads

\* Line 30, memoized = 4<<30: the shift is done in int.  In an int of 32 bits
\* 4 * 2^30 is not representable: the behaviour is undefined before C++20 and
\* the value wraps from C++20 on, which gives 0; an int wide enough for
\* 2^32 gives 2^32.
FallbackValues ==
    {IntToSizeT(MulBytes(NatBytes(4, 4), NatBytes(2 ^ 30, 4), 4)), FourGiB}

\* Line 28: the product of the two sysconf results, each cast to size_t.
QueriedRAM ==
    MulBytes(ToUnsigned(physPages, 8), ToUnsigned(pageSize, 8), 8)

\* totalRAM: memoized after the call is what it returns.
TotalRAM ==
    /\ \E fallback \in FallbackValues :
         memoized' = IF memoized # ZeroBytes(8) THEN memoized
                     ELSE IF QueriedRAM # ZeroBytes(8) THEN QueriedRAM
                     ELSE fallback
    /\ Returned("totalRAM", "OK")
    /\ UNCHANGED <<diskVars, engVars, dbVars, wbVars, itVars, dtorLog, histVars,
                   written, statusCode, physPages, pageSize, threads>>

NextRAM == TotalRAM

SpecRAM == InitRAM /\ [][NextRAM]_vars

\* ------------------------------------------------------------ convertStatus
\* convertStatus is given a status of any code.
InitStatus ==
    /\ NoDatabase
    /\ statusCode \in 0..MaxCode
    /\ physPages = 1
    /\ pageSize = 1
    /\ memoized = ZeroBytes(8)
    /\ threads = NoThreads

\* A call of convertStatus(s), s.code() being statusCode.
ConvertStatusCall ==
    /\ ret.op = "none"
    /\ Returned("convertStatus", convertStatus(CodeName(statusCode)))
    /\ UNCHANGED <<diskVars, engVars, dbVars, wbVars, itVars, dtorLog, histVars,
                   written, staticVars, threads>>

NextStatus == ConvertStatusCall

SpecStatus == InitStatus /\ [][NextStatus]_vars

\* ------------------------------------------------- objects that outlive ~DB
\* The open database of InitData, whose caller makes WriteBatches and
\* Iterators and may destroy the database while it still holds them.
NextHeld ==
    \/ BeginWrites
    \/ \E c \in Names, k \in LifeKeys, v \in BatchVals : WBPut(c, k, v)
    \/ WBCommit
    \/ WBDestroy
    \/ \E c \in Names : ReaderIterator(c, <<>>)
    \/ IteratorNext
    \/ IteratorDestroy
    \/ DBDestructor

SpecHeld == InitData /\ [][NextHeld]_vars

\* ------------------------------------------------------------------ claims
CallStage(call) ==
    CASE call[1] = "CompactRange" -> 1
      [] call[1] = "SyncWAL" -> 2
      [] call[1] = "Flush" -> 3
      [] call[1] = "deleteHandle" -> 4
      [] call[1] = "deleteDB" -> 5

CallCount(calls, call) == Cardinality({i \in 1..Len(calls) : calls[i] = call})

\* C4: ~DB makes, once each and in this order: in BULK_LOAD only, a compaction
\* of every collection of the mapping; unless READ_ONLY, one WAL sync and then
\* a flush of every collection of the mapping; the release of every collection
\* handle; last, the release of the engine handle.  READ_ONLY compacts and
\* flushes nothing, and nothing is released twice.
C4_ShutdownOrder ==
    ret.op = "~DB" =>
        LET L == dtorLog.calls
            hs == {dtorLog.colls[n] : n \in DOMAIN dtorLog.colls}
            bulk == IF dtorLog.mode = "BULK_LOAD" THEN 1 ELSE 0
            writable == IF dtorLog.mode # "READ_ONLY" THEN 1 ELSE 0
        IN  /\ \A h \in hs :
                /\ CallCount(L, <<"CompactRange", h>>) = bulk
                /\ CallCount(L, <<"Flush", h>>) = writable
                /\ CallCount(L, <<"deleteHandle", h>>) = 1
            /\ CallCount(L, <<"SyncWAL", "">>) = writable
            /\ CallCount(L, <<"deleteDB", "">>) = 1
            /\ Len(L) = Cardinality(hs) * (bulk + writable + 1) + writable + 1
            /\ \A i, j \in 1..Len(L) : i < j => CallStage(L[i]) <= CallStage(L[j])
            /\ L[Len(L)] = <<"deleteDB", "">>
            /\ eng = "closed"
            /\ hAcq = {}
            /\ ~doubleFree
            /\ db = "none"

C4_Witness ==
    /\ ret.op = "~DB"
    /\ dtorLog.mode = "BULK_LOAD"
    /\ DOMAIN dtorLog.colls = {"a", "default"}
    /\ Len(dtorLog.calls) = 8

\* C10: when Open or Initialize returns a status other than OK, the engine
\* handle and every collection handle the call acquired have been released,
\* and none of them twice.
C10_NoLeakOnFailure ==
    /\ ~doubleFree
    /\ (ret.op \in {"Open", "Initialize"} /\ ret.status # "OK") =>
          /\ db = "none"
          /\ eng = "closed"
          /\ hAcq = {}

\* An Open that acquired the engine and two collection handles and then failed.
C10_Witness ==
    /\ ret.op = "Open"
    /\ ret.status = "Failure"
    /\ Len(cfList) = 2
    /\ eng = "closed"

NamesUnique ==
    /\ \A i, j \in 1..Len(cfList) : cfList[i] = cfList[j] => i = j
    /\ \A n, m \in DOMAIN coll2handle_ : coll2handle_[n] = coll2handle_[m] => n = m
    /\ \A n \in DOMAIN coll2handle_ : coll2handle_[n] \in Range(cfList)

\* C9: create_collection(name) for a name the mapping holds returns Exists and
\* changes neither the mapping nor the engine, collection(name) gives the same
\* handle after it as before, and after every call each name names one
\* namespace.
C9_CreateExisting ==
    [][/\ \A name \in Names :
            (ret'.op = "create_collection" /\ name \in DOMAIN coll2handle_
                /\ CreateCollection(name)) =>
            /\ ret'.status = "Exists"
            /\ coll2handle_' = coll2handle_
            /\ UNCHANGED <<diskVars, engVars>>
            /\ Collection(name)' = Collection(name)
            /\ Collection(name).status = "OK"
       /\ NamesUnique']_vars

\* A second create_collection("a") has been refused.
C9_Witness ==
    /\ ret.op = "create_collection"
    /\ ret.status = "Exists"
    /\ "a" \in DOMAIN coll2handle_
    /\ Len(cfList) = 2

\* What get returns for every key of a table.
GetsOf(table, key) ==
    IF key \in DOMAIN table
    THEN [status |-> "OK", value |-> table[key]]
    ELSE [status |-> "NotFound", value |-> 0]

\* C5: a database reopened after a NORMAL database on the same path was
\* destroyed returns, for every collection and key, what get returned when
\* that database was destroyed: every value of a put or commit that returned
\* OK, flushed or not, and nothing a batch had only staged.
C5_ReopenKeepsCommitted ==
    (ret.op = "Open" /\ ret.status = "OK" /\ closedView # <<>>) =>
        \A c \in closedView[1].cfs :
            /\ Collection(c).status = "OK"
            /\ \A k \in PutKeys :
                 /\ DBGet(Collection(c).coll, k) = GetsOf(closedView[1].view[c], k)
                 /\ ReaderGet(Collection(c).coll, k) = GetsOf(closedView[1].view[c], k)

\* A reopened database returns a value that was never flushed (the log held
\* it), after a batch with uncommitted puts was dropped.
C5_Witness ==
    /\ ret.op = "Open"
    /\ ret.status = "OK"
    /\ closedView # <<>>
    /\ \E c \in closedView[1].cfs :
         /\ <<1>> \in DOMAIN closedView[1].view[c]
         /\ <<1>> \notin DOMAIN sst[c]
         /\ closedView[1].view[c][<<1>>] \notin BatchVals
    /\ closedView[1].dropped

Max(S) == CHOOSE x \in S : \A y \in S : y <= x

\* What get(c, k) returns once the puts of a batch have been applied, given
\* what it returned before: the value of the last put to k in c, if any.
GetAfter(before, puts, c, k) ==
    LET idx == {i \in 1..Len(puts) : puts[i].coll = c /\ puts[i].key = k}
    IN  IF idx = {} THEN before
        ELSE [status |-> "OK", value |-> puts[Max(idx)].value]

\* C1: a commit is all or nothing.  When it returns OK every get returns what
\* the staged puts, applied in order, make it return; when it returns an error
\* every get returns what it returned before the commit, so that no staged
\* value has become visible.
C1_CommitAllOrNothing ==
    [][(ret'.op = "commit" /\ WBCommit) =>
         \/ /\ ret'.status = "OK"
            /\ \A c \in Handles, k \in PutKeys :
                 /\ DBGet(c, k)' = GetAfter(DBGet(c, k), staged, c, k)
                 /\ ReaderGet(c, k)' = GetAfter(ReaderGet(c, k), staged, c, k)
         \/ /\ ret'.status # "OK"
            /\ \A c \in Handles, k \in PutKeys :
                 /\ DBGet(c, k)' = DBGet(c, k)
                 /\ ReaderGet(c, k)' = ReaderGet(c, k)]_vars

\* A commit of puts to two keys of two collections has failed, and neither
\* staged value is visible.
C1_Witness ==
    /\ ret.op = "commit"
    /\ ret.status = "IOError"
    /\ Len(staged) = 2
    /\ staged[1].coll # staged[2].coll
    /\ staged[1].key # staged[2].key
    /\ \A i \in 1..2 : DBGet(staged[i].coll, staged[i].key).status = "NotFound"
    /\ \E c \in Handles, k \in PutKeys : DBGet(c, k).status = "OK"

\* C2: WriteBatch::put returns OK, leaves the engine as it is, and changes
\* what no get and no iterator returns.
C2_PutOnlyStages ==
    [][\A c \in Names, k \in PutKeys, v \in Vals : (ret'.op = "wb_put" /\ WBPut(c, k, v)) =>
         /\ ret'.status = "OK"
         /\ UNCHANGED <<diskVars, engVars>>
         /\ staged' = Append(staged, [coll |-> c, key |-> k, value |-> v])
         /\ \A h \in Handles :
              /\ Visible(h)' = Visible(h)
              /\ \A key \in PutKeys :
                   /\ DBGet(h, key)' = DBGet(h, key)
                   /\ ReaderGet(h, key)' = ReaderGet(h, key)]_vars

\* Two puts are staged on a batch never committed, and neither is visible.
C2_Witness ==
    /\ ret.op = "wb_put"
    /\ ret.status = "OK"
    /\ Len(staged) = 2
    /\ wbDone = 0
    /\ \A i \in 1..2 : DBGet(staged[i].coll, staged[i].key).status = "NotFound"

\* C6: while a database is open, DB::get and Reader::get of key k in
\* collection c return OK with the value of the last put (or commit) to k in c
\* that returned OK, or the value found at open when there was none; and
\* NotFound for a key never written to c, whatever was put to other
\* collections.
C6_RoundTrip ==
    db = "live" =>
        \A c \in Handles, k \in PutKeys :
            /\ DBGet(c, k) = GetsOf(written, <<c, k>>)
            /\ ReaderGet(c, k) = GetsOf(written, <<c, k>>)

\* A put to "a" is read back, and the same key of "default" is still absent.
C6_Witness ==
    /\ ret = [op |-> "put", status |-> "OK"]
    /\ DBGet("a", <<2>>) = [status |-> "OK", value |-> 2]
    /\ ReaderGet("a", <<2>>) = [status |-> "OK", value |-> 2]
    /\ DBGet("default", <<2>>).status = "NotFound"
    /\ <<"a", <<2>>>> \in DOMAIN written
    /\ <<"default", <<2>>>> \notin DOMAIN written

\* The keys an iterator made with startKey start is to visit.
ToVisit(start) ==
    {k \in Range(itKeys) : start = <<>> \/ ~LexLess(k, start)}

\* C7: the keys an iterator shows while valid() are strictly ascending, are
\* keys of the collection not below startKey (any key for an empty startKey),
\* and skip none of those; while valid(), key() and value() are the entry
\* shown last; and once valid() is false with no error on the cursor, every
\* such key has been shown.
C7_IterationOrder ==
    it = "open" =>
        /\ \A i, j \in 1..Len(visited) : i < j => LexLess(visited[i], visited[j])
        /\ Range(visited) \subseteq ToVisit(itStart)
        /\ \A k \in ToVisit(itStart) :
              (visited # <<>> /\ LexLess(k, visited[Len(visited)])) => k \in Range(visited)
        /\ itEnded = "no" =>
              /\ IteratorValid
              /\ visited # <<>>
              /\ key_ = visited[Len(visited)]
              /\ value_ = itVals[key_]
        /\ itEnded = "end" => Range(visited) = ToVisit(itStart)

\* An iterator sought at a key the collection does not hold has passed over
\* the smaller key, shown the two keys above, and ended.
C7_Witness ==
    /\ it = "open"
    /\ itEnded = "end"
    /\ ~IteratorValid
    /\ itStart = <<1, 1>>
    /\ Range(itKeys) = {<<1>>, <<1, 2>>, <<2>>}
    /\ visited = <<<<1, 2>>, <<2>>>>

\* C11: no call through a WriteBatch or Iterator obtained from a Database
\* (commit, next, the iterator's release) goes through the engine handle after
\* ~DB has deleted it.
C11_NoUseAfterDestroy == ~usedReleased

\* The kinds of the error taxonomy.
StatusKinds ==
    {"OK", "NotFound", "Failure", "NotImplemented", "Invalid", "IOError", "Exists"}

\* C12: convertStatus gives every status code, enumerated or not, one kind of
\* the taxonomy: OK exactly for kOk, NotFound for kNotFound, NotImplemented
\* for kNotSupported, Invalid for kInvalidArgument, IOError for kIOError, and
\* Failure for every other code.
C12_ConvertStatusTotal ==
    ret.op = "convertStatus" =>
        LET name == CodeName(statusCode)
        IN  /\ ret.status \in StatusKinds
            /\ ret.status = "OK" <=> statusCode = 0
            /\ name = "kNotFound" => ret.status = "NotFound"
            /\ name = "kNotSupported" => ret.status = "NotImplemented"
            /\ name = "kInvalidArgument" => ret.status = "Invalid"
            /\ name = "kIOError" => ret.status = "IOError"
            /\ name \notin {"kOk", "kNotFound", "kNotSupported", "kInvalidArgument",
                             "kIOError"} => ret.status = "Failure"

\* A code that is no enumerator of rocksdb::Status::Code came out as Failure.
C12_Witness ==
    /\ ret.op = "convertStatus"
    /\ statusCode > Len(StatusCodeNames)
    /\ CodeName(statusCode) = "unlisted"
    /\ ret.status = "Failure"

\* The store found when the database of OpenedData was opened.
OpenedStore == [p \in {<<"default", <<1>>>>} |-> 1]

\* The stores that applying whole, in some order, the batches of the threads
\* of set S to OpenedStore gives.
SerialStores(S) ==
    IF S = {} THEN {OpenedStore}
    ELSE IF Cardinality(S) = 1
    THEN {WriteAll(OpenedStore, threads[t].wb_) : t \in S}
    ELSE {WriteAll(WriteAll(OpenedStore, threads[o[1]].wb_), threads[o[2]].wb_) :
            o \in {p \in S \X S : p[1] # p[2]}}

\* C13: whatever the interleaving of two threads committing their batches,
\* what the gets of any moment return is the store found at open with the
\* batches of the commits that have gone through applied whole, in one of their
\* serial orders; a commit still under way or failed has contributed nothing.
C13_CommitsSerialize ==
    threads # NoThreads =>
        LET through == {t \in Threads :
                          threads[t].pc = "done" /\ threads[t].status = "OK"}
        IN  /\ Found \in SerialStores(through)
            /\ \A c \in Handles, k \in PutKeys :
                  \E store \in SerialStores(through) :
                      /\ DBGet(c, k) = GetsOf(store, <<c, k>>)
                      /\ ReaderGet(c, k) = GetsOf(store, <<c, k>>)

\* Both threads have committed batches of two puts that write the same two
\* keys, and the store is one batch laid over the other.
C13_Witness ==
    /\ threads # NoThreads
    /\ \A t \in Threads :
          /\ threads[t].pc = "done"
          /\ threads[t].status = "OK"
          /\ Len(threads[t].wb_) = 2
          /\ threads[t].wb_[1].key # threads[t].wb_[2].key
    /\ DBGet("a", <<1>>).value = DBGet("a", <<2>>).value

\* C14: a commit that follows a commit the engine failed, on the same batch,
\* applies none of the puts staged before the failure: every get returns what
\* it returned before.
C14_FailedCommitDiscards ==
    [][(ret.op = "commit" /\ ret.status = "IOError" /\ ret'.op = "commit"
            /\ WBCommit) =>
         \A c \in Handles, k \in PutKeys :
             /\ DBGet(c, k)' = DBGet(c, k)
             /\ ReaderGet(c, k)' = ReaderGet(c, k)]_vars

\* C15: Iterator::next on a cursor whose status is not ok returns that status
\* converted and leaves the cursor's position, key() and value() as they
\* were; and a next that returns an error, found on the cursor or left by
\* the advance, returns the cursor's status converted and leaves key() and
\* value() as they were.
C15_NextOnError ==
    [][(ret'.op = "next" /\ IteratorNext) =>
         /\ itStatus # "kOk" =>
               /\ ret'.status = convertStatus(itStatus)
               /\ ret'.status # "OK"
               /\ UNCHANGED <<itPos, itStatus, key_, value_>>
         /\ ret'.status # "OK" =>
               /\ ret'.status = convertStatus(itStatus')
               /\ UNCHANGED <<key_, value_>>
         /\ ret'.status = "OK" <=> itStatus' = "kOk"]_vars

\* A next has returned the Failure of a corrupted cursor, and key() and
\* value() still hold the entry shown before it.
C15_Witness ==
    /\ it = "open"
    /\ ret = [op |-> "next", status |-> "Failure"]
    /\ itStatus = "kCorruption"
    /\ ~IteratorValid
    /\ visited # <<>>
    /\ key_ = visited[Len(visited)]
    /\ value_ = itVals[key_]

\* The write options of a database of mode_ NORMAL or BULK_LOAD.
DurabilityOfMode ==
    /\ mode_ = "NORMAL" =>
          /\ batch_write_options_ = [disableWAL |-> FALSE, sync |-> TRUE]
          /\ write_options_ = [disableWAL |-> FALSE, sync |-> FALSE]
    /\ mode_ = "BULK_LOAD" =>
          /\ batch_write_options_.disableWAL
          /\ write_options_.disableWAL

\* C16: while a database is open its write options are those of its mode
\* (NORMAL: commit synchronous with the log, put not synchronous with the
\* log; BULK_LOAD: both without the log) and no call changes them; every put
\* and every commit of a batch from begin_writes writes under them: what it
\* writes reaches the log in NORMAL mode and not in BULK_LOAD mode.
C16_DurabilityByMode ==
    [][/\ db' = "live" => DurabilityOfMode'
       /\ (db = "live" /\ db' = "live") =>
             UNCHANGED <<mode_, write_options_, batch_write_options_>>
       /\ (ret'.op = "commit" /\ ret'.status = "OK" /\ WBCommit) =>
             \A i \in 1..Len(staged) :
                 /\ mode_ = "NORMAL" => staged[i].key \in DOMAIN wal'[staged[i].coll]
                 /\ mode_ = "BULK_LOAD" => wal' = wal
       /\ \A c \in Names, k \in LifeKeys, v \in Vals :
             (ret'.op = "put" /\ ret'.status = "OK" /\ DBPut(c, k, v)) =>
                 /\ mode_ = "NORMAL" => wal'[c][k] = v
                 /\ mode_ = "BULK_LOAD" => wal' = wal]_vars

\* A NORMAL database has committed a batch under synchronous, logged write
\* options, and the log holds the write.
C16_Witness ==
    /\ db = "live"
    /\ mode_ = "NORMAL"
    /\ ret = [op |-> "commit", status |-> "OK"]
    /\ staged # <<>>
    /\ batch_write_options_.sync
    /\ ~batch_write_options_.disableWAL
    /\ ~write_options_.sync
    /\ staged[1].key \in DOMAIN wal[staged[1].coll]

\* C17: totalRAM returns 2^32 when either sysconf call returned -1 or the
\* product of the two results is zero, and that product otherwise.
C17_TotalRAMFallback ==
    ret.op = "totalRAM" =>
        memoized = IF physPages = -1 \/ pageSize = -1 \/ QueriedRAM = ZeroBytes(8)
                   THEN FourGiB
                   ELSE QueriedRAM

\* C18: after an Open that returned OK, in any mode, the mapping holds the
\* names of the database's column families and no other, each mapped to the
\* handle the engine opened for the column family of that name, all of them
\* acquired and distinct; collection(name) returns OK with that handle for
\* these names and NotFound for any other.
C18_OpenFillsMapping ==
    (ret.op = "Open" /\ ret.status = "OK") =>
        /\ db = "live"
        /\ DOMAIN coll2handle_ = Range(cfList)
        /\ \A n \in DOMAIN coll2handle_ :
              /\ coll2handle_[n] = n
              /\ coll2handle_[n] \in hAcq
        /\ \A name \in Names \cup {"b"} :
              Collection(name) = IF name \in Range(cfList)
                                 THEN [status |-> "OK", coll |-> name]
                                 ELSE [status |-> "NotFound", coll |-> ""]

\* A READ_ONLY Open of a database of two column families.
C18_Witness ==
    /\ ret = [op |-> "Open", status |-> "OK"]
    /\ mode_ = "READ_ONLY"
    /\ cfList = <<"default", "a">>
    /\ Collection("a").status = "OK"
    /\ Collection("b").status = "NotFound"

\* The names for which collection() returns OK on an object with this mapping.
VisibleNames(c2h) == {name \in Names \cup {"b"} : name \in DOMAIN c2h}

\* C19: a NORMAL Open that returns OK on the path of the database just
\* destroyed gives an object whose collection() returns OK for the names for
\* which the destroyed object's collection() returned OK, the default column
\* family included, and for no other.
C19_ReopenKeepsCollections ==
    [][(/\ dtorLog # NoDtor
        /\ db = "none"
        /\ ret'.op = "Open"
        /\ ret'.status = "OK"
        /\ mode_' = "NORMAL")
       => /\ VisibleNames(coll2handle_') = VisibleNames(dtorLog.colls)
          /\ (Collection("default").status = "OK")']_vars

\* The entry of the iterator's cursor at position pos.
EntryAt(keys, vals, pos) == [key |-> keys[pos], value |-> vals[keys[pos]]]

\* C20: after the construction of an iterator and after each of its next()
\* calls, when valid() is true key() and value() are the key and value of the
\* entry the cursor is at; a next() that leaves the cursor not valid leaves
\* key() and value() as they were, so one that moves the cursor from the last
\* entry past the end leaves them at that last entry's contents.
C20_IteratorCache ==
    [][/\ (it' = "open" /\ IteratorValid') =>
            [key |-> key_', value |-> value_'] = EntryAt(itKeys', itVals', itPos')
       /\ (it = "open" /\ ret'.op = "next" /\ ~IteratorValid') =>
            /\ key_' = key_
            /\ value_' = value_
            /\ IteratorValid =>
                 [key |-> key_', value |-> value_'] = EntryAt(itKeys, itVals, itPos)]_vars

\* A next() has moved the cursor past the last of three entries, which key()
\* and value() still hold.
C20_Witness ==
    /\ it = "open"
    /\ ret = [op |-> "next", status |-> "OK"]
    /\ itStatus = "kOk"
    /\ Len(itKeys) = 3
    /\ itPos = 4
    /\ ~IteratorValid
    /\ visited = itKeys
    /\ [key |-> key_, value |-> value_] = EntryAt(itKeys, itVals, 3)

====
